---- MODULE Spec2Model ----
(***************************************************************************)
(* A model of the Elasticpath shop bot: the per-chat conversation engine   *)
(* of src/telegram_bot.py, the session of src/elasticpath/api.py it calls  *)
(* the backend through, and the geocoder of src/geocoding.py.              *)
(*                                                                         *)
(* Strings the code takes apart (callback data, message text) are          *)
(* sequences of one-character strings; strings the code only compares      *)
(* (state names) are strings.                                              *)
(***************************************************************************)
EXTENDS Integers, Sequences, FiniteSets, TLC

(***************************************************************************)
(* Bounds of the model.                                                    *)
(***************************************************************************)
\* the page cursor is not taken above MaxPage
MaxPage == 1
\* the page cursor is not taken below -MaxBelow
MaxBelow == 1
\* a cart holds at most MaxQty items of a product
MaxQty == 1
\* the clock stops at MaxTime
MaxTime == 1
\* handlers that may run at once if the dispatcher were to allow it
MaxRunning == 2

\* lifetime of an access token, in clock ticks (the backend's answer)
TokenTTL == 1

\* chat ids
Users == {1, 2}


(***************************************************************************)
(* Constants of src/telegram_bot.py.                                       *)
(***************************************************************************)
START_STATE == "start state"
PRODUCT_LIST_STATE == "product list state"
PRODUCT_DESCRIPTION_STATE == "product description state"
CART_STATE == "cart state"
WAIT_EMAIL_STATE == "wait for email state"
WAIT_LOCATION_STATE == "wait for location state"

PRODUCT_LIST_CALLBACK_DATA ==
    <<"p","r","o","d","u","c","t"," ","l","i","s","t"," ",
      "c","a","l","l","b","a","c","k">>
\* a 'show cart' callback data that is the JSON text of a product token
SHOW_CART_AS_JSON ==
    <<"{","\"","i","d","\"",":"," ","\"","p","1","\"",","," ",
      "\"","a","m","o","u","n","t","\"",":"," ","1","}">>

SHOW_CART_CALLBACK_DATA ==
    <<"s","h","o","w"," ","c","a","r","t"," ","c","a","l","l","b","a","c","k">>
CHECKOUT_CALLBACK_DATA ==
    <<"o","r","d","e","r"," ","c","a","l","l","b","a","c","k">>
NEXT_PAGE_CALLBACK_DATA == <<"n","e","x","t"," ","p","a","g","e">>
PREVIOUS_PAGE_CALLBACK_DATA ==
    <<"p","r","e","v","i","o","u","s"," ","p","a","g","e">>

PRODUCT_LIST_PAGE_SIZE == 8
AVAILABLE_PRODUCT_AMOUNTS == <<1>>

\* the text of the start command
StartCommand == <<"/","s","t","a","r","t">>

\* Python's None where a value of the model's type is expected
NoState == "None"
NoException == "none"
\* a value of the store that names no state of the bot
ForeignState == "some other state"

(***************************************************************************)
(* Identifiers of the backend's objects.                                   *)
(***************************************************************************)
Digit(d) == CASE d = 0 -> "0" [] d = 1 -> "1" [] d = 2 -> "2" [] d = 3 -> "3"
              [] d = 4 -> "4" [] d = 5 -> "5" [] d = 6 -> "6" [] d = 7 -> "7"
              [] d = 8 -> "8" [] d = 9 -> "9"

RECURSIVE Decimal(_)
\* str(n) of a natural number
Decimal(n) == IF n < 10 THEN <<Digit(n)>>
              ELSE Decimal(n \div 10) \o <<Digit(n % 10)>>

\* the id of the i-th product of the catalog
ProductId(i) == <<"p">> \o Decimal(i)
\* the id of the cart line that holds the i-th product
CartItemId(i) == <<"i">> \o Decimal(i)

(***************************************************************************)
(* The callback data codec: serialize_product_id_and_amount is json.dumps  *)
(* of {'id': ..., 'amount': ...}; deserialize_product_id_and_amount is     *)
(* json.loads and two subscripts.  json_loads reads the JSON texts made of *)
(* objects, strings and integers; an escape other than \" and \\ is        *)
(* outside the alphabet of the model and is read as a decoding error.      *)
(***************************************************************************)
\* a json.dumps that writes the characters of a string as they are
json_no_escape(s) == s

RECURSIVE json_escape(_)
\* json.dumps of the characters of a string: " and \ get a backslash
json_escape(s) ==
    IF s = <<>> THEN <<>>
    ELSE (IF Head(s) \in {"\"", "\\"} THEN <<"\\", Head(s)>> ELSE <<Head(s)>>)
         \o json_escape(Tail(s))

serialize_product_id_and_amount(product_id, amount) ==
    <<"{", "\"", "i", "d", "\"", ":", " ", "\"">> \o json_escape(product_id)
    \o <<"\"", ",", " ", "\"", "a", "m", "o", "u", "n", "t", "\"", ":", " ">>
    \o Decimal(amount) \o <<"}">>

IsDigit(c) == c \in {"0", "1", "2", "3", "4", "5", "6", "7", "8", "9"}
DigitValue(c) == CHOOSE d \in 0..9 : Digit(d) = c

JsonFail == [ok |-> FALSE, kind |-> "none", str |-> <<>>, int |-> 0,
             keys |-> <<>>, vals |-> <<>>, next |-> 0]

RECURSIVE SkipSpace(_, _)
SkipSpace(s, i) == IF i <= Len(s) /\ s[i] = " " THEN SkipSpace(s, i + 1) ELSE i

RECURSIVE ScanString(_, _, _)
\* the string whose opening quote is before position i
ScanString(s, i, acc) ==
    IF i > Len(s) THEN JsonFail
    ELSE IF s[i] = "\""
         THEN [JsonFail EXCEPT !.ok = TRUE, !.kind = "str", !.str = acc,
                               !.next = i + 1]
    ELSE IF s[i] = "\\"
         THEN IF i + 1 <= Len(s) /\ s[i + 1] \in {"\"", "\\"}
              THEN ScanString(s, i + 2, Append(acc, s[i + 1]))
              ELSE JsonFail
    ELSE ScanString(s, i + 1, Append(acc, s[i]))

RECURSIVE ScanDigits(_, _, _)
ScanDigits(s, i, acc) ==
    IF i <= Len(s) /\ IsDigit(s[i])
    THEN ScanDigits(s, i + 1, 10 * acc + DigitValue(s[i]))
    ELSE [JsonFail EXCEPT !.ok = TRUE, !.kind = "int", !.int = acc, !.next = i]

\* an integer: an optional minus, then 0 or a digit string with no leading 0
ScanInt(s, i) ==
    LET neg == i <= Len(s) /\ s[i] = "-"
        j == IF neg THEN i + 1 ELSE i
    IN  IF j > Len(s) \/ ~IsDigit(s[j]) THEN JsonFail
        ELSE IF s[j] = "0"
             THEN [JsonFail EXCEPT !.ok = TRUE, !.kind = "int", !.next = j + 1]
        ELSE LET r == ScanDigits(s, j, 0)
             IN  IF neg THEN [r EXCEPT !.int = 0 - r.int] ELSE r

\* a string or an integer at position i
ScanScalar(s, i) ==
    IF i <= Len(s) /\ s[i] = "\"" THEN ScanString(s, i + 1, <<>>)
    ELSE ScanInt(s, i)

RECURSIVE ScanMembers(_, _, _, _)
\* the members of an object, the first one at position i
ScanMembers(s, i, keys, vals) ==
    LET k == IF i <= Len(s) /\ s[i] = "\"" THEN ScanString(s, i + 1, <<>>)
             ELSE JsonFail
        c == IF k.ok THEN SkipSpace(s, k.next) ELSE 0
        v == IF k.ok /\ c <= Len(s) /\ s[c] = ":"
             THEN ScanScalar(s, SkipSpace(s, c + 1)) ELSE JsonFail
        e == IF v.ok THEN SkipSpace(s, v.next) ELSE 0
        val == [kind |-> v.kind, str |-> v.str, int |-> v.int]
    IN  IF ~v.ok \/ e > Len(s) THEN JsonFail
        ELSE IF s[e] = "}"
             THEN [JsonFail EXCEPT !.ok = TRUE, !.kind = "obj",
                                   !.keys = Append(keys, k.str),
                                   !.vals = Append(vals, val), !.next = e + 1]
        ELSE IF s[e] = ","
             THEN ScanMembers(s, SkipSpace(s, e + 1), Append(keys, k.str),
                              Append(vals, val))
        ELSE JsonFail

\* json.loads: ok is FALSE where it raises JSONDecodeError
json_loads(s) ==
    LET i == SkipSpace(s, 1)
        r == IF i > Len(s) THEN JsonFail
             ELSE IF s[i] = "{"
                  THEN LET j == SkipSpace(s, i + 1)
                       IN  IF j <= Len(s) /\ s[j] = "}"
                           THEN [JsonFail EXCEPT !.ok = TRUE, !.kind = "obj",
                                                 !.next = j + 1]
                           ELSE ScanMembers(s, j, <<>>, <<>>)
             ELSE ScanScalar(s, i)
    IN  IF r.ok /\ SkipSpace(s, r.next) = Len(s) + 1 THEN r ELSE JsonFail

\* no value: what id and amount hold before they are decoded
NoValue == [kind |-> "none", str |-> <<>>, int |-> 0]

\* d[key] of a parsed object: the value of the last member with that key
JsonHas(d, key) == \E n \in 1..Len(d.keys) : d.keys[n] = key
JsonGet(d, key) ==
    d.vals[CHOOSE n \in 1..Len(d.keys) :
              /\ d.keys[n] = key
              /\ \A m \in (n + 1)..Len(d.keys) : d.keys[m] # key]

\* line 329: deserialized_data['id'], deserialized_data['amount'] of what
\* json.loads returned (d.ok is FALSE where json.loads raised).  exc is the
\* exception raised, NoException when (id, amount) is returned; a value is
\* [kind, str, int], kind being "str" or "int"
id_and_amount(d) ==
    IF ~d.ok THEN [exc |-> "JSONDecodeError", id |-> NoValue, amount |-> NoValue]
    ELSE IF d.kind # "obj"
         THEN [exc |-> "TypeError", id |-> NoValue, amount |-> NoValue]
    ELSE IF ~JsonHas(d, <<"i", "d">>)
            \/ ~JsonHas(d, <<"a", "m", "o", "u", "n", "t">>)
         THEN [exc |-> "KeyError", id |-> NoValue, amount |-> NoValue]
    ELSE [exc |-> NoException,
          id |-> JsonGet(d, <<"i", "d">>),
          amount |-> JsonGet(d, <<"a", "m", "o", "u", "n", "t">>)]

deserialize_product_id_and_amount(serialized_data) ==
    id_and_amount(json_loads(serialized_data))

(***************************************************************************)
(* The backend's data as the wrappers of src/elasticpath/api.py return it. *)
(***************************************************************************)
Min2(a, b) == IF a < b THEN a ELSE b
Max2(a, b) == IF a > b THEN a ELSE b
Abs(a) == IF a < 0 THEN 0 - a ELSE a

\* GET /products with page[limit] and page[offset] on a catalog of n
\* products: empty beyond the end; an offset below 0, where the backend
\* answers at all, gives nothing
ProductsPage(n, limit, offset) ==
    IF offset < 0 THEN <<>>
    ELSE [i \in 1..Max2(0, Min2(limit, n - offset)) |-> ProductId(offset + i)]

ProductExists(n, product_id) == \E i \in 1..n : ProductId(i) = product_id
ProductIndex(n, product_id) == CHOOSE i \in 1..n : ProductId(i) = product_id

\* a cart is the sequence of its lines [id, product_id, quantity]
CartHasProduct(cart, product_id) ==
    \E k \in 1..Len(cart) : cart[k].product_id = product_id
CartHasItem(cart, item_id) == \E k \in 1..Len(cart) : cart[k].id = item_id

\* POST /carts/<ref>/items: the line of the product grows, or a new line
CartAdd(cart, n, product_id, quantity) ==
    IF CartHasProduct(cart, product_id)
    THEN [k \in 1..Len(cart) |->
            IF cart[k].product_id = product_id
            THEN [cart[k] EXCEPT !.quantity = @ + quantity] ELSE cart[k]]
    ELSE Append(cart, [id |-> CartItemId(ProductIndex(n, product_id)),
                       product_id |-> product_id, quantity |-> quantity])

RECURSIVE CartRemove(_, _)
\* DELETE /carts/<ref>/items/<id>
CartRemove(cart, item_id) ==
    IF cart = <<>> THEN <<>>
    ELSE IF Head(cart).id = item_id THEN CartRemove(Tail(cart), item_id)
    ELSE <<Head(cart)>> \o CartRemove(Tail(cart), item_id)

RECURSIVE CartQuantity(_, _)
CartQuantity(cart, product_id) ==
    IF cart = <<>> THEN 0
    ELSE (IF Head(cart).product_id = product_id THEN Head(cart).quantity ELSE 0)
         + CartQuantity(Tail(cart), product_id)

\* a shop entry of the flow: Address, Longitude, Latitude.  The points of
\* the model lie on one line, Latitude 0, Longitude in meters along it.
Shop(address, longitude) ==
    [Address |-> address, Longitude |-> longitude, Latitude |-> 0]
\* what the backend may hold: an empty catalog; one full page of products
\* and no shop entry; one product more, or two pages and a product, and two
\* shop entries
Worlds ==
    {[catalog |-> 0, shops |-> <<Shop("A", 0), Shop("B", 900)>>],
     [catalog |-> PRODUCT_LIST_PAGE_SIZE, shops |-> <<>>],
     [catalog |-> PRODUCT_LIST_PAGE_SIZE + 1,
      shops |-> <<Shop("A", 0), Shop("B", 900)>>],
     [catalog |-> PRODUCT_LIST_PAGE_SIZE + PRODUCT_LIST_PAGE_SIZE + 1,
      shops |-> <<Shop("A", 0), Shop("B", 900)>>]}
\* where a user may be
UserLongitudes == {450, 5450}

(***************************************************************************)
(* One run of a state handler is a machine m: the user's user_data and     *)
(* cart, the handler's locals, the views it has sent, the exception it     *)
(* raised (exc), the state it returned (ret), the network calls it made    *)
(* (calls) and whether one was answered with an error (failed).  The       *)
(* handler is a                                                            *)
(* sequence of steps; env holds what the step reads of the world: the      *)
(* catalog, the shop entries, whether the cached credential is valid, the  *)
(* network call that fails (fail_at, 0 for none) and the geocoder's        *)
(* answer.                                                                 *)
(***************************************************************************)
NewMachine(data, cart) ==
    [user_data |-> data, cart |-> cart, views |-> <<>>,
     exc |-> NoException, ret |-> NoState,
     calls |-> 0, failed |-> FALSE, need_auth |-> FALSE,
     have_client |-> FALSE, cached |-> 0,
     mutations |-> 0,
     products |-> <<>>, next_amount |-> 0, product_id |-> <<>>,
     amount |-> NoValue, amount_in_cart |-> 0,
     cart_items |-> <<>>,
     geo |-> "none",
     longitude |-> 0, latitude |-> 0, entries |-> <<>>, nearest |-> 0]

\* user_data is the dict of the chat: <<>> without the key 'page', <<c>>
\* with the page c under it
HasPage(data) == Len(data) > 0
Page(data) == data[1]

Raise(m, e) == [m EXCEPT !.exc = e]
\* an error status answered a request and raise_for_status raises
RaiseForStatus(m) == [m EXCEPT !.exc = "HTTPStatusError", !.failed = TRUE]
Proceeds(m) == m.exc = NoException /\ m.ret = NoState /\ ~m.need_auth

View(kind) ==
    [kind |-> kind, page |-> 0, buttons |-> <<>>, product_id |-> <<>>,
     amount_in_cart |-> 0, address |-> "", distance |-> 0]

\* str() of a decoded JSON value
PyStr(v) == IF v.kind = "str" THEN v.str
            ELSE IF v.int < 0 THEN <<"-">> \o Decimal(0 - v.int)
            ELSE Decimal(v.int)

\* a _make_request without raise_for_status: the error status is answered
\* and the response is returned as if it were a result
HttpRequestNoRaise(m, env) ==
    LET n == m.calls + 1
    IN  [m EXCEPT !.calls = n, !.failed = @ \/ (n = env.fail_at)]

\* _make_request, and httpx.get with raise_for_status in fetch_coordinates:
\* the request is sent; the fail_at-th call of the handler is answered with
\* an error status, which raise_for_status raises
HttpRequest(m, env) ==
    LET n == m.calls + 1
    IN  IF n = env.fail_at
        THEN RaiseForStatus([m EXCEPT !.calls = n])
        ELSE [m EXCEPT !.calls = n]

\* a client property that does not keep the client: it authorizes on every
\* request
AlwaysAuthorizes(cached, time, expiry) == TRUE

\* a client property that keeps its client for ever: it authorizes only
\* when none is cached
NeedsAuthorizationOnce(cached, time, expiry) == ~cached

\* the condition of the client property under which it authorizes
NeedsAuthorization(cached, time, expiry) == (~cached) \/ (time >= expiry)

\* _APISession.get/post/delete: the client property, then _make_request.
\* Without a valid cached client the property authorizes first: the run
\* stops here (need_auth) until the authorization request is answered.
SessionRequest(m, env) ==
    IF ~m.have_client /\ ~env.cred_ok
    THEN [m EXCEPT !.need_auth = TRUE]
    ELSE HttpRequest([m EXCEPT !.have_client = FALSE,
                               !.cached = IF m.have_client THEN @ ELSE @ + 1],
                     env)

\* update.callback_query.data: update.callback_query is None for a message
callback_data(m, update) ==
    IF update.kind # "callback" THEN Raise(m, "AttributeError") ELSE m

\* context.user_data[PRODUCT_LIST_PAGE] = 0
page_reset(m) == [m EXCEPT !.user_data = <<0>>]

\* context.user_data[PRODUCT_LIST_PAGE] += 1
page_next(m) ==
    IF ~HasPage(m.user_data) THEN Raise(m, "KeyError")
    ELSE [m EXCEPT !.user_data = <<Page(m.user_data) + 1>>]

\* context.user_data[PRODUCT_LIST_PAGE] -= 1
page_previous(m) ==
    IF ~HasPage(m.user_data) THEN Raise(m, "KeyError")
    ELSE [m EXCEPT !.user_data = <<Page(m.user_data) - 1>>]

\* show_product_list: the products of the current page
list_get_products(m, env) ==
    IF ~HasPage(m.user_data) THEN Raise(m, "KeyError")
    ELSE LET r == SessionRequest(m, env)
         IN  IF ~Proceeds(r) THEN r
             ELSE [r EXCEPT !.products =
                       ProductsPage(env.catalog, PRODUCT_LIST_PAGE_SIZE,
                                    PRODUCT_LIST_PAGE_SIZE * Page(m.user_data))]

\* navigation_buttons: the lookahead fetch of the following page
navigation_get_products(m, env) ==
    LET r == SessionRequest(m, env)
    IN  IF ~Proceeds(r) THEN r
        ELSE [r EXCEPT !.next_amount =
                  Len(ProductsPage(env.catalog, PRODUCT_LIST_PAGE_SIZE,
                         PRODUCT_LIST_PAGE_SIZE * (Page(m.user_data) + 1)))]

\* navigation buttons with '<<<' on the first page too
navigation_buttons_on_first(current_page, next_page_products_amount) ==
    (IF current_page >= 0 THEN <<PREVIOUS_PAGE_CALLBACK_DATA>> ELSE <<>>)
    \o (IF next_page_products_amount > 0 THEN <<NEXT_PAGE_CALLBACK_DATA>>
        ELSE <<>>)

\* navigation_buttons: the buttons, from the current page and the lookahead
navigation_buttons(current_page, next_page_products_amount) ==
    (IF current_page > 0 THEN <<PREVIOUS_PAGE_CALLBACK_DATA>> ELSE <<>>)
    \o (IF next_page_products_amount > 0 THEN <<NEXT_PAGE_CALLBACK_DATA>>
        ELSE <<>>)

\* show_product_list: the reply with one button per product and the
\* navigation buttons
list_reply(m) ==
    [m EXCEPT !.views = Append(@,
        [View("product list") EXCEPT
            !.page = Page(m.user_data),
            !.buttons = m.products
                \o navigation_buttons(Page(m.user_data), m.next_amount)])]

\* handle_product_list_state: callback_data is a product ID otherwise
take_product_id(m, update) == [m EXCEPT !.product_id = update.data]

\* handle_product_description_state: callback_data is a JSON
unpack_id_and_amount(m, d) ==
    IF d.exc # NoException THEN Raise(m, d.exc)
    ELSE [m EXCEPT !.product_id = PyStr(d.id), !.amount = d.amount]

take_product_id_and_amount(m, update) ==
    unpack_id_and_amount(m, deserialize_product_id_and_amount(update.data))

\* _ProductsAPI.get_product: 404 for an id the catalog does not hold
get_product(m, env) ==
    LET r == SessionRequest(m, env)
    IN  IF ~Proceeds(r) THEN r
        ELSE IF ~ProductExists(env.catalog, m.product_id)
             THEN RaiseForStatus(r)
        ELSE r

\* a get_or_create_cart that makes a new cart at every call
get_or_create_cart_anew(m, env) ==
    LET r == SessionRequest(m, env)
    IN  IF ~Proceeds(r) THEN r ELSE [r EXCEPT !.cart = <<>>]

\* _CartsAPI.get_or_create_cart
get_or_create_cart(m, env) == SessionRequest(m, env)

\* _CartsAPI.add_product_to_cart: the backend refuses a quantity that is
\* no positive integer
add_product_to_cart(m, env) ==
    LET r == SessionRequest(m, env)
    IN  IF ~Proceeds(r) THEN r
        ELSE IF m.amount.kind # "int" \/ m.amount.int <= 0
             THEN RaiseForStatus(r)
        ELSE [r EXCEPT !.cart = CartAdd(m.cart, env.catalog, m.product_id,
                                        m.amount.int),
                       !.mutations = @ + 1]

\* _CartsAPI.amount_of_product_in_cart
amount_of_product_in_cart(m, env) ==
    LET r == SessionRequest(m, env)
    IN  IF ~Proceeds(r) THEN r
        ELSE [r EXCEPT !.amount_in_cart = CartQuantity(m.cart, m.product_id)]

\* _FilesAPI.get_file of the product's main image
get_file(m, env) == SessionRequest(m, env)

\* show_product_description: the photo with the product's text, the add
\* buttons, 'Back to menu' and 'Show cart'
product_reply(m) ==
    [m EXCEPT !.views = Append(@,
        [View("product") EXCEPT
            !.product_id = m.product_id,
            !.amount_in_cart = m.amount_in_cart,
            !.buttons =
                [k \in 1..Len(AVAILABLE_PRODUCT_AMOUNTS) |->
                    serialize_product_id_and_amount(
                        m.product_id, AVAILABLE_PRODUCT_AMOUNTS[k])]
                \o <<PRODUCT_LIST_CALLBACK_DATA, SHOW_CART_CALLBACK_DATA>>])]

\* _CartsAPI.get_cart_items
get_cart_items(m, env) ==
    LET r == SessionRequest(m, env)
    IN  IF ~Proceeds(r) THEN r ELSE [r EXCEPT !.cart_items = m.cart]

\* show_cart: the reply with one 'Remove' button per line, 'Checkout' and
\* 'Back to menu'
cart_reply(m) ==
    [m EXCEPT !.views = Append(@,
        [View("cart") EXCEPT
            !.buttons = [k \in 1..Len(m.cart_items) |-> m.cart_items[k].id]
                \o <<CHECKOUT_CALLBACK_DATA, PRODUCT_LIST_CALLBACK_DATA>>])]

\* _CartsAPI.remove_cart_item: 404 for a line the cart does not hold
remove_cart_item(m, env, update) ==
    LET r == SessionRequest(m, env)
    IN  IF ~Proceeds(r) THEN r
        ELSE IF ~CartHasItem(m.cart, update.data)
             THEN RaiseForStatus(r)
        ELSE [r EXCEPT !.cart = CartRemove(m.cart, update.data),
                       !.mutations = @ + 1]

\* handle_cart_state: 'Please provide you location or address.'
location_prompt(m) == [m EXCEPT !.views = Append(@, View("location prompt"))]

\* handle_location_state: update.message is None for a callback query;
\* a shared location gives the coordinates
message_location(m, update) ==
    IF update.kind # "message" THEN Raise(m, "AttributeError")
    ELSE IF update.has_location
         THEN [m EXCEPT !.longitude = update.longitude,
                        !.latitude = update.latitude]
    ELSE m

\* a handler that replies to an unknown address and goes on
fetch_coordinates_and_go_on(m, env, update) ==
    IF update.has_location THEN m
    ELSE LET r == HttpRequest(m, env)
         IN  IF ~Proceeds(r) THEN r
             ELSE IF env.geo = "unknown"
                  THEN [r EXCEPT !.geo = env.geo,
                                 !.views = Append(@, View("location unknown"))]
             ELSE [r EXCEPT !.geo = env.geo,
                            !.longitude = env.geo_longitude, !.latitude = 0]

\* fetch_coordinates, for a message without a location: the geocoder's
\* answer (geo) is an HTTP error, no place (UnknownAddressError: the handler
\* replies and returns WAIT_LOCATION_STATE) or the most relevant place
fetch_coordinates(m, env, update) ==
    IF update.has_location THEN m
    ELSE LET r == HttpRequest(m, env)
         IN  IF ~Proceeds(r) THEN r
             ELSE IF env.geo = "unknown"
                  THEN [r EXCEPT !.geo = env.geo,
                                 !.views = Append(@, View("location unknown")),
                                 !.ret = WAIT_LOCATION_STATE]
             ELSE [r EXCEPT !.geo = env.geo,
                            !.longitude = env.geo_longitude, !.latitude = 0]

\* _FlowsAPI.get_all_entries
get_all_entries(m, env) ==
    LET r == SessionRequest(m, env)
    IN  IF ~Proceeds(r) THEN r ELSE [r EXCEPT !.entries = env.shops]

\* shop_distance_calculator: int(distance(user, shop).meters); on the line
\* of the model the distance is the difference of the positions
shop_distance(longitude, latitude, shop_entry) ==
    Abs(longitude - shop_entry.Longitude) + Abs(latitude - shop_entry.Latitude)

RECURSIVE min_by_distance(_, _, _, _, _)
\* min(entries, key=shop_distance) from entry k on: best is the index kept
\* so far, replaced by an entry of a strictly smaller key
min_by_distance(entries, longitude, latitude, k, best) ==
    IF k > Len(entries) THEN best
    ELSE min_by_distance(entries, longitude, latitude, k + 1,
            IF shop_distance(longitude, latitude, entries[k])
               < shop_distance(longitude, latitude, entries[best])
            THEN k ELSE best)

RECURSIVE min_by_distance_last(_, _, _, _, _)
\* a min that keeps the later of two entries of the same key
min_by_distance_last(entries, longitude, latitude, k, best) ==
    IF k > Len(entries) THEN best
    ELSE min_by_distance_last(entries, longitude, latitude, k + 1,
            IF shop_distance(longitude, latitude, entries[k])
               <= shop_distance(longitude, latitude, entries[best])
            THEN k ELSE best)

\* a nearest shop that is the last entry of the least distance
nearest_shop_last(m) ==
    IF m.entries = <<>> THEN Raise(m, "ValueError")
    ELSE [m EXCEPT !.nearest =
            min_by_distance_last(m.entries, m.longitude, m.latitude, 2, 1)]

\* min(entries, key=shop_distance): the first entry of the least distance,
\* ValueError for no entries
nearest_shop(m) ==
    IF m.entries = <<>> THEN Raise(m, "ValueError")
    ELSE [m EXCEPT !.nearest =
            min_by_distance(m.entries, m.longitude, m.latitude, 2, 1)]

\* tiers whose upper limits belong to them
delivery_message_inclusive(distance) ==
    IF distance <= 500 THEN "free"
    ELSE IF distance <= 5000 THEN "100 rubles"
    ELSE IF distance <= 20000 THEN "300 rubles"
    ELSE "too far"

\* show_delivery_options: the message for the distance
delivery_message(distance) ==
    IF distance < 500 THEN "free"
    ELSE IF distance < 5000 THEN "100 rubles"
    ELSE IF distance < 20000 THEN "300 rubles"
    ELSE "too far"

delivery_reply(m) ==
    LET shop == m.entries[m.nearest]
        d == shop_distance(m.longitude, m.latitude, shop)
    IN  [m EXCEPT !.views = Append(@,
            [View(delivery_message(d)) EXCEPT
                !.address = IF d < 500 THEN shop.Address ELSE "",
                !.distance = IF d < 500 THEN d ELSE 0])]

(***************************************************************************)
(* The handlers, each the sequence of its steps.  A step is named after    *)
(* the operator above that it applies; "answer" and "delete_message" are   *)
(* calls of the chat transport that leave the machine as it is.            *)
(***************************************************************************)
Step(op) == op
\* the step that returns a state is the state's name
Return(state) == state

\* a show_product_list that always starts from the first page
show_product_list_from_first(update) ==
    (IF update.kind = "callback" THEN <<Step("delete_message")>> ELSE <<>>)
    \o <<Step("page_reset"), Step("list_get_products"),
         Step("navigation_get_products"), Step("list_reply")>>

show_product_list(update) ==
    (IF update.kind = "callback" THEN <<Step("delete_message")>> ELSE <<>>)
    \o <<Step("list_get_products"), Step("navigation_get_products"),
         Step("list_reply")>>

show_product_description ==
    <<Step("answer"), Step("get_product"), Step("get_or_create_cart"),
      Step("amount_of_product_in_cart"), Step("get_file"),
      Step("product_reply"), Step("delete_message")>>

show_cart ==
    <<Step("answer"), Step("get_or_create_cart"), Step("get_cart_items"),
      Step("cart_reply"), Step("delete_message")>>

handle_start_state(update) ==
    <<Step("page_reset")>> \o show_product_list(update)
    \o <<Return(PRODUCT_LIST_STATE)>>

\* a handle_product_list_state that also opens the cart
handle_product_list_state_with_cart(update) ==
    <<Step("callback_data")>>
    \o (IF update.data = NEXT_PAGE_CALLBACK_DATA
        THEN <<Step("page_next")>> \o show_product_list(update)
             \o <<Return(PRODUCT_LIST_STATE)>>
        ELSE IF update.data = PREVIOUS_PAGE_CALLBACK_DATA
        THEN <<Step("page_previous")>> \o show_product_list(update)
             \o <<Return(PRODUCT_LIST_STATE)>>
        ELSE IF update.data = SHOW_CART_CALLBACK_DATA
        THEN show_cart \o <<Return(CART_STATE)>>
        ELSE <<Step("take_product_id")>> \o show_product_description
             \o <<Return(PRODUCT_DESCRIPTION_STATE)>>)

handle_product_list_state(update) ==
    <<Step("callback_data")>>
    \o (IF update.data = NEXT_PAGE_CALLBACK_DATA
        THEN <<Step("page_next")>> \o show_product_list(update)
             \o <<Return(PRODUCT_LIST_STATE)>>
        ELSE IF update.data = PREVIOUS_PAGE_CALLBACK_DATA
        THEN <<Step("page_previous")>> \o show_product_list(update)
             \o <<Return(PRODUCT_LIST_STATE)>>
        ELSE <<Step("take_product_id")>> \o show_product_description
             \o <<Return(PRODUCT_DESCRIPTION_STATE)>>)

\* a handle_product_description_state that shows the product before it
\* adds it to the cart
handle_product_description_state_view_first(update) ==
    <<Step("callback_data")>>
    \o (IF update.data = PRODUCT_LIST_CALLBACK_DATA
        THEN show_product_list(update) \o <<Return(PRODUCT_LIST_STATE)>>
        ELSE IF update.data = SHOW_CART_CALLBACK_DATA
        THEN show_cart \o <<Return(CART_STATE)>>
        ELSE <<Step("take_product_id_and_amount")>>
             \o show_product_description
             \o <<Step("get_or_create_cart"), Step("get_product"),
                  Step("add_product_to_cart"), Step("answer"),
                  Return(PRODUCT_DESCRIPTION_STATE)>>)

handle_product_description_state(update) ==
    <<Step("callback_data")>>
    \o (IF update.data = PRODUCT_LIST_CALLBACK_DATA
        THEN show_product_list(update) \o <<Return(PRODUCT_LIST_STATE)>>
        ELSE IF update.data = SHOW_CART_CALLBACK_DATA
        THEN show_cart \o <<Return(CART_STATE)>>
        ELSE <<Step("take_product_id_and_amount"), Step("get_or_create_cart"),
               Step("get_product"), Step("add_product_to_cart"),
               Step("answer")>>
             \o show_product_description
             \o <<Return(PRODUCT_DESCRIPTION_STATE)>>)

handle_cart_state(update) ==
    <<Step("callback_data")>>
    \o (IF update.data = PRODUCT_LIST_CALLBACK_DATA
        THEN show_product_list(update) \o <<Return(PRODUCT_LIST_STATE)>>
        ELSE IF update.data = CHECKOUT_CALLBACK_DATA
        THEN <<Step("location_prompt"), Return(WAIT_LOCATION_STATE)>>
        ELSE <<Step("get_or_create_cart"), Step("remove_cart_item")>>
             \o show_cart \o <<Return(CART_STATE)>>)

\* a handle_location_state that ends the order without choosing a shop
handle_location_state_without_selection ==
    <<Step("message_location"), Step("fetch_coordinates"),
      Step("get_all_entries"), Return(START_STATE)>>

handle_location_state ==
    <<Step("message_location"), Step("fetch_coordinates"),
      Step("get_all_entries"), Step("nearest_shop"), Step("delivery_reply"),
      Return(START_STATE)>>

\* the keys of self._state_functions
HandledStates ==
    {START_STATE, PRODUCT_LIST_STATE, PRODUCT_DESCRIPTION_STATE, CART_STATE,
     WAIT_LOCATION_STATE}

\* a table of state functions without the handler of the wait for location
\* state
state_handler_without_location(user_state, update) ==
    IF user_state = START_STATE THEN handle_start_state(update)
    ELSE IF user_state = PRODUCT_LIST_STATE
         THEN handle_product_list_state(update)
    ELSE IF user_state = PRODUCT_DESCRIPTION_STATE
         THEN handle_product_description_state(update)
    ELSE IF user_state = CART_STATE THEN handle_cart_state(update)
    ELSE <<Step("KeyError")>>

\* self._state_functions[user_state]: KeyError for a state without handler
state_handler(user_state, update) ==
    IF user_state = START_STATE THEN handle_start_state(update)
    ELSE IF user_state = PRODUCT_LIST_STATE
         THEN handle_product_list_state(update)
    ELSE IF user_state = PRODUCT_DESCRIPTION_STATE
         THEN handle_product_description_state(update)
    ELSE IF user_state = CART_STATE THEN handle_cart_state(update)
    ELSE IF user_state = WAIT_LOCATION_STATE THEN handle_location_state
    ELSE <<Step("KeyError")>>

\* one step of a handler
Do(step, m, env, update) ==
    CASE step \in HandledStates -> [m EXCEPT !.ret = step]
      [] step = "KeyError" -> Raise(m, "KeyError")
      [] step \in {"answer", "delete_message"} -> m
      [] step = "callback_data" -> callback_data(m, update)
      [] step = "page_reset" -> page_reset(m)
      [] step = "page_next" -> page_next(m)
      [] step = "page_previous" -> page_previous(m)
      [] step = "list_get_products" -> list_get_products(m, env)
      [] step = "navigation_get_products" -> navigation_get_products(m, env)
      [] step = "list_reply" -> list_reply(m)
      [] step = "take_product_id" -> take_product_id(m, update)
      [] step = "take_product_id_and_amount" ->
            take_product_id_and_amount(m, update)
      [] step = "get_product" -> get_product(m, env)
      [] step = "get_or_create_cart" -> get_or_create_cart(m, env)
      [] step = "add_product_to_cart" -> add_product_to_cart(m, env)
      [] step = "amount_of_product_in_cart" ->
            amount_of_product_in_cart(m, env)
      [] step = "get_file" -> get_file(m, env)
      [] step = "product_reply" -> product_reply(m)
      [] step = "get_cart_items" -> get_cart_items(m, env)
      [] step = "cart_reply" -> cart_reply(m)
      [] step = "remove_cart_item" -> remove_cart_item(m, env, update)
      [] step = "location_prompt" -> location_prompt(m)
      [] step = "message_location" -> message_location(m, update)
      [] step = "fetch_coordinates" -> fetch_coordinates(m, env, update)
      [] step = "get_all_entries" -> get_all_entries(m, env)
      [] step = "nearest_shop" -> nearest_shop(m)
      [] step = "delivery_reply" -> delivery_reply(m)

\* the steps that send a request over the network
NetworkSteps ==
    {"list_get_products", "navigation_get_products", "get_product",
     "get_or_create_cart", "add_product_to_cart", "amount_of_product_in_cart",
     "get_file", "get_cart_items", "remove_cart_item", "fetch_coordinates",
     "get_all_entries"}

RECURSIVE Exec(_, _, _, _, _)
RECURSIVE After(_, _, _, _, _)
\* the handler runs from its step at + 1 until it returns, raises or waits
\* for an authorization; at counts the steps done
Exec(steps, at, m, env, update) ==
    IF at >= Len(steps) \/ ~Proceeds(m) THEN [at |-> at, m |-> m]
    ELSE After(steps, at, Do(steps[at + 1], m, env, update), env, update)

\* r is the machine after step at + 1: a step that waits for an
\* authorization is not done yet
After(steps, at, r, env, update) ==
    IF r.need_auth THEN [at |-> at, m |-> r]
    ELSE Exec(steps, at + 1, r, env, update)

(***************************************************************************)
(* The updates the chat transport delivers.                                *)
(***************************************************************************)
NoUpdate ==
    [kind |-> "other", text |-> <<>>, has_location |-> FALSE,
     longitude |-> 0, latitude |-> 0, data |-> <<>>]
TextMessage(text) == [NoUpdate EXCEPT !.kind = "message", !.text = text]
LocationMessage(longitude) ==
    [NoUpdate EXCEPT !.kind = "message", !.has_location = TRUE,
                     !.longitude = longitude]
CallbackQuery(data) == [NoUpdate EXCEPT !.kind = "callback", !.data = data]

\* the data of the buttons the bot sends for the first product
CallbackTokens ==
    {PRODUCT_LIST_CALLBACK_DATA, SHOW_CART_CALLBACK_DATA,
     CHECKOUT_CALLBACK_DATA, NEXT_PAGE_CALLBACK_DATA,
     PREVIOUS_PAGE_CALLBACK_DATA, ProductId(1), CartItemId(1),
     serialize_product_id_and_amount(ProductId(1), 1)}

Updates ==
    {NoUpdate, TextMessage(StartCommand), TextMessage(<<"h", "i">>)}
    \cup {LocationMessage(x) : x \in UserLongitudes}
    \cup {CallbackQuery(d) : d \in CallbackTokens}

(***************************************************************************)
(* The state.                                                              *)
(***************************************************************************)
VARIABLES
    users_db,    \* the state store: chat id -> state name, NoState for no key
    user_data,   \* context.user_data of each chat, in the process's memory
    carts,       \* the backend's carts, by reference (the chat id)
    catalog,     \* the number of products the backend holds
    shops,       \* the entries of the shop flow
    client,      \* _APISession._client is not None
    expires_at,  \* _APISession._expires_at
    now,         \* time.time()
    running,     \* the calls of handle_users_reply that have not ended
    last         \* the call of handle_users_reply that ended last

vars == <<users_db, user_data, carts, catalog, shops, client, expires_at, now,
          running, last>>

\* one cart for every chat
SharedCartReference(chat_id) == 1

\* the reference of a chat's cart is the chat id
CartReference(chat_id) == chat_id

\* a call of handle_users_reply: pc is "handler" while the state handler
\* runs, "auth" while it waits for the answer to an authorization request,
\* "returned" between the handler's return and the write of the next state
\* the buttons of the view each chat was sent last by this process: those
\* the chats held when the call began (shown), but for the call's chat
\* those of the last view the call has sent
Rendered(call) ==
    IF call.m.views = <<>> THEN call.shown
    ELSE [call.shown EXCEPT
             ![call.user] = call.m.views[Len(call.m.views)].buttons]

\* the buttons of the view each chat was sent last, now
Shown ==
    IF running = {} THEN Rendered(last.call)
    ELSE Rendered(CHOOSE c \in running : TRUE)

Call(u, update, user_state, read) ==
    [user |-> u, update |-> update, user_state |-> user_state,
     shown |-> Shown,
     read |-> read, db_before |-> users_db[u],
     data_before |-> user_data[u],
     cart_before |-> carts[CartReference(u)],
     pc |-> "handler", at |-> 0,
     m |-> NewMachine(user_data[u], carts[CartReference(u)]), auths |-> 0]

\* how a call ended: "ignored" (neither message nor callback query),
\* "returned" (the next state is written), "raised"
Ended(call, outcome, db_after) ==
    [outcome |-> outcome, call |-> call, db_after |-> db_after]

NoCall ==
    [user |-> 0, update |-> NoUpdate, user_state |-> NoState,
     shown |-> [u \in Users |-> <<>>],
     read |-> FALSE, db_before |-> NoState,
     data_before |-> <<>>, cart_before |-> <<>>,
     pc |-> "handler", at |-> 0,
     m |-> NewMachine(<<>>, <<>>), auths |-> 0]

Init ==
    /\ \E stored \in {NoState, WAIT_EMAIL_STATE, ForeignState} :
          users_db = [u \in Users |-> IF u = 1 THEN stored ELSE NoState]
    /\ user_data = [u \in Users |-> <<>>]
    /\ carts = [u \in Users |-> <<>>]
    /\ \E w \in Worlds : catalog = w.catalog /\ shops = w.shops
    /\ client = FALSE
    /\ expires_at = 0
    /\ now = 0
    /\ running = {}
    /\ last = Ended(NoCall, "none", NoState)

(***************************************************************************)
(* handle_users_reply.                                                     *)
(***************************************************************************)
\* a dispatcher that runs handlers in a pool of MaxRunning threads (the
\* handlers registered with run_async)
DispatcherAsync == Cardinality(running) < MaxRunning

\* the dispatcher calls a handler when the one before has returned: the
\* handlers are registered without run_async
DispatcherFree == running = {}

\* a dispatch on the stored state alone, without the test for '/start'
UserStateFromStore(u, update) ==
    IF users_db[u] = NoState THEN START_STATE ELSE users_db[u]

\* the state the update is handled in
UserState(u, update) ==
    LET user_reply == IF update.kind = "message" THEN update.text
                      ELSE update.data
    IN  IF user_reply = StartCommand THEN START_STATE
        ELSE IF users_db[u] = NoState THEN START_STATE
        ELSE users_db[u]

ReadsState(update) ==
    (IF update.kind = "message" THEN update.text ELSE update.data)
    # StartCommand

\* the cart stays within the bound when (id, amount) of d is added
QuantityWithinBounds(cart, d) ==
    /\ d.exc = NoException
    /\ d.amount.kind = "int"
    /\ ProductExists(catalog, PyStr(d.id))
    => CartQuantity(cart, PyStr(d.id)) + d.amount.int <= MaxQty

\* the bounds of the model on the page cursor and on the cart
WithinBounds(u, update) ==
    /\ update.data = NEXT_PAGE_CALLBACK_DATA /\ HasPage(user_data[u])
          => Page(user_data[u]) < MaxPage
    /\ update.data = PREVIOUS_PAGE_CALLBACK_DATA /\ HasPage(user_data[u])
          => Page(user_data[u]) > 0 - MaxBelow
    /\ QuantityWithinBounds(carts[CartReference(u)],
                             deserialize_product_id_and_amount(update.data))

\* lines 52-64: the update's text or data, the chat id, the user's state
Begin(u, update) ==
    /\ DispatcherFree
    /\ WithinBounds(u, update)
    /\ IF update.kind = "other"
       THEN /\ last' = Ended([NoCall EXCEPT !.user = u, !.shown = Shown],
                             "ignored", users_db[u])
            /\ UNCHANGED running
       ELSE /\ running' = running \cup
                  {Call(u, update, UserState(u, update), ReadsState(update))}
            /\ last' = Ended(NoCall, "none", NoState)
    /\ UNCHANGED <<users_db, user_data, carts, catalog, shops, client,
                   expires_at, now>>

\* what the geocoder may answer: no place, or the place
GeocoderAnswers ==
    {[geo |-> "unknown", longitude |-> 0]}
    \cup {[geo |-> "found", longitude |-> x] : x \in UserLongitudes}

\* the steps of the call that are left
StepsLeft(c) ==
    LET steps == state_handler(c.user_state, c.update)
    IN  {steps[k] : k \in (c.at + 1)..Len(steps)}

\* the network calls the run may see fail: none (0), or one of those left
FailurePoints(c) ==
    {0} \cup
    ((c.m.calls + 1)..(c.m.calls + Cardinality(StepsLeft(c) \cap NetworkSteps)))

\* what a run of the handler reads of the world
Environment(fail_at, answer) ==
    [catalog |-> catalog, shops |-> shops,
     cred_ok |-> ~NeedsAuthorization(client, now, expires_at),
     fail_at |-> fail_at, geo |-> answer.geo,
     geo_longitude |-> answer.longitude]

\* the call c with its handler at x.at and its machine x.m
Resumed(c, x) == [c EXCEPT !.at = x.at, !.m = [x.m EXCEPT !.need_auth = FALSE]]

\* the handler of c has run to x: it waits for an authorization, has raised
\* (line 68 is not reached) or has returned the next state
RunTo(c, x) ==
    /\ user_data' = [user_data EXCEPT ![c.user] = x.m.user_data]
    /\ carts' = [carts EXCEPT ![CartReference(c.user)] = x.m.cart]
    /\ IF x.m.need_auth
       THEN /\ running' = (running \ {c}) \cup
                  {[Resumed(c, x) EXCEPT !.pc = "auth", !.auths = @ + 1]}
            /\ UNCHANGED last
       ELSE IF x.m.exc # NoException
       THEN /\ running' = running \ {c}
            /\ last' = Ended(Resumed(c, x), "raised", users_db[c.user])
       ELSE /\ running' = (running \ {c}) \cup
                  {[Resumed(c, x) EXCEPT !.pc = "returned"]}
            /\ UNCHANGED last

\* lines 66-67: the state handler runs until it returns, raises or needs an
\* authorization
Run(c) ==
    /\ c.pc = "handler"
    /\ \E fail_at \in FailurePoints(c),
          answer \in IF "fetch_coordinates" \in StepsLeft(c)
                     THEN GeocoderAnswers
                     ELSE {[geo |-> "unknown", longitude |-> 0]} :
          RunTo(c, Exec(state_handler(c.user_state, c.update), c.at,
                        [c.m EXCEPT !.user_data = user_data[c.user],
                                    !.cart = carts[CartReference(c.user)]],
                        Environment(fail_at, answer), c.update))
    /\ UNCHANGED <<users_db, catalog, shops, client, expires_at, now>>

\* _authorize answered with a token: the client property caches the client
\* and its expiry and returns the client
AuthorizeOk(c) ==
    /\ c.pc = "auth"
    /\ client' = TRUE
    /\ expires_at' = now + TokenTTL
    /\ running' = (running \ {c}) \cup
          {[c EXCEPT !.pc = "handler", !.m.have_client = TRUE]}
    /\ UNCHANGED <<users_db, user_data, carts, catalog, shops, now, last>>

\* a client property that forgets the cached client when _authorize raises
AuthorizeFailForgets(c) ==
    /\ c.pc = "auth"
    /\ running' = running \ {c}
    /\ last' = Ended([c EXCEPT !.m = RaiseForStatus(c.m)], "raised",
                     users_db[c.user])
    /\ client' = FALSE
    /\ expires_at' = 0
    /\ UNCHANGED <<users_db, user_data, carts, catalog, shops, now>>

\* _authorize answered with an error status: raise_for_status raises
AuthorizeFail(c) ==
    /\ c.pc = "auth"
    /\ running' = running \ {c}
    /\ last' = Ended([c EXCEPT !.m = RaiseForStatus(c.m)], "raised",
                     users_db[c.user])
    /\ UNCHANGED <<users_db, user_data, carts, catalog, shops, client,
                   expires_at, now>>

\* a handle_users_reply that also stores the state it dispatches on before
\* the state handler has run
CommitBeforeReturn(c) ==
    /\ c.pc \in {"handler", "returned"}
    /\ users_db' = [users_db EXCEPT
                       ![c.user] = IF c.pc = "returned" THEN c.m.ret
                                   ELSE c.user_state]
    /\ IF c.pc = "returned"
       THEN /\ running' = running \ {c}
            /\ last' = Ended(c, "returned", c.m.ret)
       ELSE UNCHANGED <<running, last>>
    /\ UNCHANGED <<user_data, carts, catalog, shops, client, expires_at, now>>

\* line 68: self.users_db.set(chat_id, next_state)
Commit(c) ==
    /\ c.pc = "returned"
    /\ users_db' = [users_db EXCEPT ![c.user] = c.m.ret]
    /\ running' = running \ {c}
    /\ last' = Ended(c, "returned", c.m.ret)
    /\ UNCHANGED <<user_data, carts, catalog, shops, client, expires_at, now>>

\* the clock
Tick ==
    /\ now < MaxTime
    /\ now' = now + 1
    /\ UNCHANGED <<users_db, user_data, carts, catalog, shops, client,
                   expires_at, running, last>>

\* the process stops and starts again: its memory is lost, the state store
\* and the backend keep what they hold
Restart ==
    /\ user_data' = [u \in Users |-> <<>>]
    /\ client' = FALSE
    /\ expires_at' = 0
    /\ running' = {}
    /\ last' = Ended(NoCall, "restart", NoState)
    /\ UNCHANGED <<users_db, carts, catalog, shops, now>>

\* the steps of the calls of handle_users_reply that have begun
Handle ==
    \/ \E c \in running : Run(c)
    \/ \E c \in running : AuthorizeOk(c)
    \/ \E c \in running : AuthorizeFail(c)
    \/ \E c \in running : Commit(c)

\* one chat, the clock and restarts of the process
Next ==
    \/ \E update \in Updates : Begin(1, update)
    \/ Handle
    \/ Tick
    \/ Restart

Spec == Init /\ [][Next]_vars

\* the same, from a store without a key
InitEmptyStore ==
    /\ Init
    /\ users_db = [u \in Users |-> NoState]

SpecEmptyStore == InitEmptyStore /\ [][Next]_vars

\* two chats on a catalog of two pages, within one run of the process and
\* one lifetime of the access token; the cursor of a chat is moved by
\* '/start' and by 'next page'
ChatUpdates ==
    {TextMessage(StartCommand), LocationMessage(450)}
    \cup {CallbackQuery(d) :
              d \in CallbackTokens \ {PREVIOUS_PAGE_CALLBACK_DATA}}

InitChats ==
    /\ Init
    /\ catalog = PRODUCT_LIST_PAGE_SIZE + 1
    /\ users_db = [u \in Users |-> NoState]

NextChats ==
    \/ \E u \in Users, update \in ChatUpdates : Begin(u, update)
    \/ Handle

SpecChats == InitChats /\ [][NextChats]_vars

\* one chat in the product description state that sends the tokens of
\* product ids and amounts: ids with the characters JSON gives a meaning
\* to, amounts of one and more digits
CodecIds ==
    {<<>>, ProductId(1), <<"1", "0">>, <<"a", "\"">>, <<"\\">>,
     <<"\"", ":", " ", "1", "}">>, <<"a", "\"", "\\", "b">>,
     <<"{", ",", " ", "\\", "\"">>}
CodecAmounts == {0, 1, 7, 10, 12, 105}

CodecUpdates ==
    {CallbackQuery(serialize_product_id_and_amount(id, amount)) :
        id \in CodecIds, amount \in CodecAmounts}

InitCodec ==
    /\ users_db = [u \in Users |-> PRODUCT_DESCRIPTION_STATE]
    /\ user_data = [u \in Users |-> <<>>]
    /\ carts = [u \in Users |-> <<>>]
    /\ catalog = PRODUCT_LIST_PAGE_SIZE + 1
    /\ shops = <<Shop("A", 0)>>
    /\ client = FALSE
    /\ expires_at = 0
    /\ now = 0
    /\ running = {}
    /\ last = Ended(NoCall, "none", NoState)

NextCodec ==
    \/ \E update \in CodecUpdates : Begin(1, update)
    \/ Handle

SpecCodec == InitCodec /\ [][NextCodec]_vars

\* one chat in the product description state that sends product tokens and
\* the five fixed callback data
FixedCallbackData ==
    {PRODUCT_LIST_CALLBACK_DATA, SHOW_CART_CALLBACK_DATA,
     CHECKOUT_CALLBACK_DATA, NEXT_PAGE_CALLBACK_DATA,
     PREVIOUS_PAGE_CALLBACK_DATA}

TokenUpdates ==
    CodecUpdates \cup {CallbackQuery(d) : d \in FixedCallbackData}

InitTokens ==
    /\ users_db = [u \in Users |-> PRODUCT_DESCRIPTION_STATE]
    /\ user_data = [u \in Users |-> <<0>>]
    /\ carts = [u \in Users |-> <<>>]
    /\ catalog = PRODUCT_LIST_PAGE_SIZE + 1
    /\ shops = <<Shop("A", 0)>>
    /\ client = FALSE
    /\ expires_at = 0
    /\ now = 0
    /\ running = {}
    /\ last = Ended(NoCall, "none", NoState)

NextTokens ==
    \/ \E update \in TokenUpdates : Begin(1, update)
    \/ Handle

SpecTokens == InitTokens /\ [][NextTokens]_vars

\* one chat that is asked for its location, at the distances from shop A
\* where the delivery message changes
DeliveryPoints == {0, 450, 499, 500, 4999, 5000, 19999, 20000, 20001}

DeliveryUpdates ==
    {LocationMessage(x) : x \in DeliveryPoints} \cup {TextMessage(<<"h", "i">>)}

InitDelivery ==
    /\ users_db = [u \in Users |-> WAIT_LOCATION_STATE]
    /\ user_data = [u \in Users |-> <<>>]
    /\ carts = [u \in Users |-> <<>>]
    /\ catalog = PRODUCT_LIST_PAGE_SIZE
    /\ shops \in {<<>>, <<Shop("A", 0)>>, <<Shop("B", 40000), Shop("A", 0)>>}
    /\ client = FALSE
    /\ expires_at = 0
    /\ now = 0
    /\ running = {}
    /\ last = Ended(NoCall, "none", NoState)

NextDelivery ==
    \/ \E update \in DeliveryUpdates : Begin(1, update)
    \/ Handle

SpecDelivery == InitDelivery /\ [][NextDelivery]_vars

\* one chat that sends '/start' and taps buttons of the view it was sent
\* last; of the buttons of the products it taps the first product's only
ButtonUpdates(u) ==
    {TextMessage(StartCommand)}
    \cup {CallbackQuery(Shown[u][k]) :
            k \in {j \in 1..Len(Shown[u]) : Shown[u][j] \in CallbackTokens}}

InitButtons ==
    /\ Init
    /\ users_db = [u \in Users |-> NoState]

NextButtons ==
    \/ \E update \in ButtonUpdates(1) : Begin(1, update)
    \/ Handle
    \/ Tick
    \/ Restart

SpecButtons == InitButtons /\ [][NextButtons]_vars

(***************************************************************************)
(* The claims.  L is the call of handle_users_reply that ended last; it    *)
(* is Handled until the next update arrives or the process restarts.       *)
(***************************************************************************)
L == last.call
Handled == last.outcome \in {"returned", "raised"}
AllStates == HandledStates \cup {WAIT_EMAIL_STATE}

IsCallback(update, data) == update.kind = "callback" /\ update.data = data
IsProductToken(update) ==
    update.kind = "callback" /\ ProductExists(catalog, update.data)
IsAddToken(update) ==
    /\ update.kind = "callback"
    /\ deserialize_product_id_and_amount(update.data).exc = NoException
IsLineToken(update, cart) ==
    update.kind = "callback" /\ CartHasItem(cart, update.data)

\* the rows of the transition table
TableRow(state, update, cart) ==
    \/ state = START_STATE
    \/ /\ state = PRODUCT_LIST_STATE
       /\ \/ IsCallback(update, NEXT_PAGE_CALLBACK_DATA)
          \/ IsCallback(update, PREVIOUS_PAGE_CALLBACK_DATA)
          \/ IsProductToken(update)
    \/ /\ state = PRODUCT_DESCRIPTION_STATE
       /\ \/ IsCallback(update, PRODUCT_LIST_CALLBACK_DATA)
          \/ IsCallback(update, SHOW_CART_CALLBACK_DATA)
          \/ IsAddToken(update)
    \/ /\ state = CART_STATE
       /\ \/ IsCallback(update, PRODUCT_LIST_CALLBACK_DATA)
          \/ IsCallback(update, CHECKOUT_CALLBACK_DATA)
          \/ IsLineToken(update, cart)
    \/ state = WAIT_LOCATION_STATE /\ update.kind = "message"

\* the next state of a row; unrecognised tells that the address was not
\* recognised
TableNext(state, update, unrecognised) ==
    IF state = START_STATE THEN PRODUCT_LIST_STATE
    ELSE IF state = PRODUCT_LIST_STATE
         THEN IF update.data \in {NEXT_PAGE_CALLBACK_DATA,
                                  PREVIOUS_PAGE_CALLBACK_DATA}
              THEN PRODUCT_LIST_STATE ELSE PRODUCT_DESCRIPTION_STATE
    ELSE IF state = PRODUCT_DESCRIPTION_STATE
         THEN IF update.data = PRODUCT_LIST_CALLBACK_DATA
              THEN PRODUCT_LIST_STATE
              ELSE IF update.data = SHOW_CART_CALLBACK_DATA THEN CART_STATE
              ELSE PRODUCT_DESCRIPTION_STATE
    ELSE IF state = CART_STATE
         THEN IF update.data = PRODUCT_LIST_CALLBACK_DATA
              THEN PRODUCT_LIST_STATE
              ELSE IF update.data = CHECKOUT_CALLBACK_DATA
              THEN WAIT_LOCATION_STATE
              ELSE CART_STATE
    ELSE IF unrecognised THEN WAIT_LOCATION_STATE ELSE START_STATE

Unrecognised(m) ==
    \E k \in 1..Len(m.views) : m.views[k].kind = "location unknown"

\* C1: for every row of the transition table, when no backend or geocoder
\* call fails, handling the event writes the row's next state for the user
\* and sends exactly one view.
C1_TransitionTable ==
    (/\ Handled
     /\ TableRow(L.user_state, L.update, L.cart_before)
     /\ ~L.m.failed)
    => /\ last.outcome = "returned"
       /\ users_db[L.user] = TableNext(L.user_state, L.update, Unrecognised(L.m))
       /\ Len(L.m.views) = 1

\* C2: for each conversation state and each kind of event, handling the
\* event completes and leaves the user in one defined state.
C2_TransitionsTotal ==
    (Handled /\ ~L.m.failed)
    => /\ last.outcome = "returned"
       /\ users_db[L.user] \in AllStates

\* C3: the page cursor of every user is at least 0 in every reachable state.
C3_CursorNonNegative ==
    \A u \in Users : HasPage(user_data[u]) => Page(user_data[u]) >= 0

\* C4: a next-page token in the product list, when the following page has no
\* product, leaves the cursor where it was, shows the same page again and
\* keeps the state.
C4_EmptyNextPageKeepsCursor ==
    (/\ Handled
     /\ L.user_state = PRODUCT_LIST_STATE
     /\ IsCallback(L.update, NEXT_PAGE_CALLBACK_DATA)
     /\ HasPage(L.data_before)
     /\ ~L.m.failed
     /\ ProductsPage(catalog, PRODUCT_LIST_PAGE_SIZE,
            PRODUCT_LIST_PAGE_SIZE * (Page(L.data_before) + 1)) = <<>>)
    => /\ last.outcome = "returned"
       /\ user_data[L.user] = L.data_before
       /\ users_db[L.user] = PRODUCT_LIST_STATE
       /\ Len(L.m.views) = 1
       /\ L.m.views[1].page = Page(L.data_before)

\* C5: a '/start' command is handled by the start handler whatever state is
\* stored for the user: the cursor becomes 0 and, when the handler returns,
\* page 0 of the catalog has been shown and the product list state stored.
C5_StartCommand ==
    (Handled /\ L.update.kind = "message" /\ L.update.text = StartCommand)
    => /\ L.user_state = START_STATE
       /\ user_data[L.user] = <<0>>
       /\ last.outcome = "returned"
            => /\ users_db[L.user] = PRODUCT_LIST_STATE
               /\ Len(L.m.views) = 1
               /\ L.m.views[1].kind = "product list"
               /\ L.m.views[1].page = 0
               /\ SubSeq(L.m.views[1].buttons, 1,
                         Min2(catalog, PRODUCT_LIST_PAGE_SIZE))
                  = ProductsPage(catalog, PRODUCT_LIST_PAGE_SIZE, 0)

C5_Witness ==
    /\ last.outcome = "returned"
    /\ L.update.text = StartCommand
    /\ L.db_before = CART_STATE
    /\ L.data_before = <<1>>

\* C6: when a backend or geocoder call is answered with an error status,
\* the call of the engine raises and the stored state of the user is the
\* one stored before the event.
C6_FailureLeavesState ==
    (Handled /\ L.m.failed)
    => /\ last.outcome = "raised"
       /\ L.m.exc = "HTTPStatusError"
       /\ users_db[L.user] = L.db_before

C6_Witness ==
    /\ last.outcome = "raised"
    /\ L.m.failed
    /\ L.db_before = PRODUCT_DESCRIPTION_STATE
    /\ L.m.mutations > 0

\* C7: a callback token in the product description state that is neither
\* 'back to menu' nor 'show cart' nor decodable is a no-op: the handler does
\* not raise, the cart and the stored state are as before.
C7_MalformedTokenIsNoOp ==
    (/\ Handled
     /\ L.user_state = PRODUCT_DESCRIPTION_STATE
     /\ L.update.kind = "callback"
     /\ L.update.data \notin {PRODUCT_LIST_CALLBACK_DATA,
                              SHOW_CART_CALLBACK_DATA}
     /\ ~IsAddToken(L.update))
    => /\ last.outcome # "raised"
       /\ carts[L.user] = L.cart_before
       /\ users_db[L.user] = L.db_before

\* C8: the events of a user are handled one after the other: a call that
\* has begun is the only call of its user, and the state stored for the user
\* is the one stored when the call began, until the call writes the next.
C8_EventsOfAUserInTurn ==
    \A c \in running :
        /\ \A d \in running : d.user = c.user => d = c
        /\ users_db[c.user] = c.db_before
        /\ c.pc = "handler" /\ c.at = 0 => user_data[c.user] = c.data_before

C8_Witness ==
    \E c \in running :
        /\ c.pc = "returned"
        /\ c.db_before = PRODUCT_DESCRIPTION_STATE
        /\ c.m.ret = CART_STATE

\* C9: a step of the call of one user leaves the stored state, the page
\* cursor and the cart of every other user as they are.
C9_ChatsIndependent ==
    [][\A b \in Users :
          (\A c \in running \cup running' : c.user # b)
          => /\ users_db'[b] = users_db[b]
             /\ user_data'[b] = user_data[b]
             /\ carts'[b] = carts[b]]_vars

C9_Witness ==
    /\ users_db[1] = CART_STATE
    /\ carts[1] # <<>>
    /\ user_data[1] = <<1>>
    /\ users_db[2] = PRODUCT_DESCRIPTION_STATE
    /\ carts[2] = <<>>
    /\ user_data[2] = <<0>>
    /\ last.outcome = "returned"
    /\ L.user = 2

DeliveryShown ==
    /\ last.outcome = "returned"
    /\ L.user_state = WAIT_LOCATION_STATE
    /\ L.m.ret = START_STATE
DeliveryView == L.m.views[Len(L.m.views)]
DeliveryShop == L.m.entries[L.m.nearest]
DeliveryDistance == shop_distance(L.m.longitude, L.m.latitude, DeliveryShop)

\* C11: the delivery message follows the distance d to the nearest shop:
\* below 500 the free message with the shop's address and d, from 500 below
\* 5000 the fee of 100, from 5000 below 20000 the fee of 300, from 20000 the
\* refusal.
C11_DeliveryTiers ==
    DeliveryShown =>
        /\ Len(L.m.views) = 1
        /\ DeliveryDistance < 500
              => /\ DeliveryView.kind = "free"
                 /\ DeliveryView.address = DeliveryShop.Address
                 /\ DeliveryView.distance = DeliveryDistance
        /\ DeliveryDistance >= 500 /\ DeliveryDistance < 5000
              => DeliveryView.kind = "100 rubles"
        /\ DeliveryDistance >= 5000 /\ DeliveryDistance < 20000
              => DeliveryView.kind = "300 rubles"
        /\ DeliveryDistance >= 20000 => DeliveryView.kind = "too far"
        /\ DeliveryDistance \in {499} => DeliveryView.kind = "free"
        /\ DeliveryDistance \in {500, 4999}
              => DeliveryView.kind = "100 rubles"
        /\ DeliveryDistance \in {5000, 19999}
              => DeliveryView.kind = "300 rubles"
        /\ DeliveryDistance \in {20000} => DeliveryView.kind = "too far"

C11_Witness ==
    /\ DeliveryShown
    /\ DeliveryDistance = 20000
    /\ DeliveryView.kind = "too far"

ListShown ==
    /\ last.outcome = "returned"
    /\ L.m.ret = PRODUCT_LIST_STATE
ListView == L.m.views[Len(L.m.views)]
ListProducts ==
    ProductsPage(catalog, PRODUCT_LIST_PAGE_SIZE,
                 PRODUCT_LIST_PAGE_SIZE * ListView.page)
ListNavigation ==
    SubSeq(ListView.buttons, Len(ListProducts) + 1, Len(ListView.buttons))
HasButton(buttons, data) == \E k \in 1..Len(buttons) : buttons[k] = data

\* C13: a product list shown at cursor c has the 'previous page' button
\* exactly when c > 0 and the 'next page' button exactly when the page
\* c + 1 (limit 8, offset 8 * (c + 1)) holds a product, and no other
\* navigation button.
C13_NavigationButtons ==
    ListShown =>
        /\ ListView.kind = "product list"
        /\ ListView.page = Page(user_data[L.user])
        /\ SubSeq(ListView.buttons, 1, Len(ListProducts)) = ListProducts
        /\ HasButton(ListNavigation, PREVIOUS_PAGE_CALLBACK_DATA)
              <=> ListView.page > 0
        /\ HasButton(ListNavigation, NEXT_PAGE_CALLBACK_DATA)
              <=> ProductsPage(catalog, PRODUCT_LIST_PAGE_SIZE,
                      PRODUCT_LIST_PAGE_SIZE * (ListView.page + 1)) # <<>>
        /\ \A k \in 1..Len(ListNavigation) :
              /\ ListNavigation[k] \in {PREVIOUS_PAGE_CALLBACK_DATA,
                                        NEXT_PAGE_CALLBACK_DATA}
              /\ \A j \in 1..Len(ListNavigation) :
                    ListNavigation[j] = ListNavigation[k] => j = k

C13_Witness ==
    /\ ListShown
    /\ catalog = PRODUCT_LIST_PAGE_SIZE
    /\ ListView.page = 0
    /\ Len(ListProducts) = PRODUCT_LIST_PAGE_SIZE
    /\ ListNavigation = <<>>

\* what deserialize_product_id_and_amount returns for (id, amount)
Decoded(id, amount) ==
    [exc |-> NoException,
     id |-> [kind |-> "str", str |-> id, int |-> 0],
     amount |-> [kind |-> "int", str |-> <<>>, int |-> amount]]

\* C14: the token serialize_product_id_and_amount makes of a product id and
\* an amount is decoded by deserialize_product_id_and_amount to that id and
\* that amount, and these are what the handler of the token works with.
C14_CodecRoundTrip ==
    \A id \in CodecIds, amount \in CodecAmounts :
        /\ \A c \in running :
              c.update.data = serialize_product_id_and_amount(id, amount)
              => deserialize_product_id_and_amount(c.update.data)
                    = Decoded(id, amount)
        /\ (Handled /\ L.update.data
                          = serialize_product_id_and_amount(id, amount))
              => /\ deserialize_product_id_and_amount(L.update.data)
                      = Decoded(id, amount)
                 /\ L.m.product_id = id
                 /\ L.m.amount = Decoded(id, amount).amount

C14_Witness ==
    /\ Handled
    /\ L.update.data
         = serialize_product_id_and_amount(<<"a", "\"", "\\", "b">>, 105)
    /\ L.m.product_id = <<"a", "\"", "\\", "b">>
    /\ L.m.amount.int = 105

\* C15: an address text the geocoder does not recognise, sent in the wait
\* for location state, is answered with one message asking again; the shop
\* entries are not fetched (the geocoder's is the only request made) and
\* the stored state stays the wait for location state.
C15_UnknownAddressAsksAgain ==
    (/\ Handled
     /\ L.user_state = WAIT_LOCATION_STATE
     /\ L.m.geo = "unknown")
    => /\ last.outcome = "returned"
       /\ Len(L.m.views) = 1
       /\ L.m.views[1].kind = "location unknown"
       /\ L.m.entries = <<>>
       /\ L.m.calls = 1
       /\ L.auths = 0
       /\ users_db[L.user] = WAIT_LOCATION_STATE
       /\ user_data[L.user] = L.data_before
       /\ carts[CartReference(L.user)] = L.cart_before

C15_Witness ==
    /\ last.outcome = "returned"
    /\ L.db_before = WAIT_LOCATION_STATE
    /\ L.update.kind = "message"
    /\ ~L.update.has_location
    /\ L.m.geo = "unknown"
    /\ users_db[L.user] = WAIT_LOCATION_STATE

\* C16: an update for a user for whom the store holds no state, or a value
\* that is no state of the bot, is handled by the start handler and the
\* call does not fail.
C16_UnknownStateIsStart ==
    (/\ Handled
     /\ L.read
     /\ L.db_before \notin AllStates)
    => /\ L.user_state = START_STATE
       /\ ~L.m.failed => /\ last.outcome = "returned"
                         /\ users_db[L.user] = PRODUCT_LIST_STATE

\* C17: a text message of a user whose stored state is the wait for email
\* state is handled: a request creates the customer, one view thanks the
\* user, and the start state is stored.
C17_EmailCreatesCustomer ==
    (/\ Handled
     /\ L.db_before = WAIT_EMAIL_STATE
     /\ L.update.kind = "message"
     /\ ~L.update.has_location
     /\ L.update.text # StartCommand
     /\ ~L.m.failed)
    => /\ last.outcome = "returned"
       /\ L.m.calls >= 1
       /\ Len(L.m.views) = 1
       /\ L.m.views[1].kind = "thank you"
       /\ users_db[L.user] = START_STATE

\* C18: when the authorization request of a call is answered with an
\* error, the call ends with the exception, the cached client and its
\* expiry are as before, the call has sent no further request, and the
\* session still needs an authorization.
C18_FailedAuthorizationKeepsCache ==
    [][\A c \in running :
          (c.pc = "auth" /\ last'.outcome = "raised")
          => /\ last'.call.user = c.user
             /\ last'.call.m.exc = "HTTPStatusError"
             /\ last'.call.m.calls = c.m.calls
             /\ client' = client
             /\ expires_at' = expires_at
             /\ users_db' = users_db
             /\ ~client' \/ now' >= expires_at']_vars

C18_Witness ==
    /\ last.outcome = "raised"
    /\ L.pc = "auth"
    /\ client
    /\ now >= expires_at

\* C19: the client is refreshed lazily.  When a running handler moves on,
\* it has started an authorization only if no client was cached or the
\* time was at or past the cached expiry, and it has been handed the
\* cached client only if a client was cached and the time was before its
\* expiry; in that case the cached client and its expiry are as before.
C19_LazyRefresh ==
    [][\A c \in running :
          \A d \in (running' \ running) \cup {last'.call} :
             (/\ c.pc = "handler"
              /\ c \notin running'
              /\ d.user = c.user
              /\ d.update = c.update
              /\ d \in running' \/ last' # last)
             => /\ d.auths > c.auths
                   => (~client \/ now >= expires_at)
                /\ d.m.cached > c.m.cached
                   => /\ client
                      /\ now < expires_at
                      /\ d.auths = c.auths
                      /\ client' = client
                      /\ expires_at' = expires_at]_vars

C19_Witness ==
    \E c \in running :
       /\ c.pc = "returned"
       /\ c.auths = 1
       /\ c.m.cached >= 1
       /\ client
       /\ now < expires_at

\* C20: the store is written only by a call whose state handler has
\* returned: the step that changes the store ends that call, writes the
\* returned state for its user and nothing else, and leaves the requests,
\* the views, the pages and the carts as the handler left them; the step
\* that ends a call as returned is the only one, so a call writes at most
\* once.  An update that is neither a message nor a callback query starts
\* no call, reads nothing and leaves the store as it is.
C20_OneWriteAfterHandler ==
    [][/\ (users_db' # users_db \/ (last' # last /\ last'.outcome = "returned"))
          => \E c \in running :
                /\ c.pc = "returned"
                /\ c.m.exc = NoException
                /\ c.m.ret # NoState
                /\ c \notin running'
                /\ running' = running \ {c}
                /\ last'.outcome = "returned"
                /\ last'.call = c
                /\ users_db' = [users_db EXCEPT ![c.user] = c.m.ret]
                /\ user_data' = user_data
                /\ carts' = carts
       /\ (last' # last /\ last'.outcome = "ignored")
          => /\ users_db' = users_db
             /\ running' = running
             /\ ~last'.call.read
             /\ last'.call.m.calls = 0]_vars

C20_Witness ==
    /\ last.outcome = "returned"
    /\ L.m.calls >= 1
    /\ Len(L.m.views) >= 1
    /\ users_db[L.user] = L.m.ret
    /\ users_db[L.user] # L.db_before

\* the last view of the call that ended last
LastView == L.m.views[Len(L.m.views)]
\* the line ids of a cart, in the cart's order
LineIds(cart) == [k \in 1..Len(cart) |-> cart[k].id]

\* C21: the cart is changed before the view is built from it.  A call in
\* the product description state with an add token that returns has added
\* the amount to the cart and its view shows the amount of the product in
\* the cart after the add; a call in the cart state with the id of a line
\* of the cart that returns has removed the line and its view lists the
\* lines of the cart after the removal, without that line.
C21_MutationBeforeView ==
    /\ (/\ last.outcome = "returned"
        /\ L.user_state = PRODUCT_DESCRIPTION_STATE
        /\ IsAddToken(L.update))
       => /\ Len(L.m.views) = 1
          /\ LastView.kind = "product"
          /\ carts[L.user] = CartAdd(L.cart_before, catalog, L.m.product_id,
                                     L.m.amount.int)
          /\ LastView.amount_in_cart
             = CartQuantity(carts[L.user], L.m.product_id)
          /\ LastView.amount_in_cart
             = CartQuantity(L.cart_before, L.m.product_id) + L.m.amount.int
    /\ (/\ last.outcome = "returned"
        /\ L.user_state = CART_STATE
        /\ IsLineToken(L.update, L.cart_before))
       => /\ Len(L.m.views) = 1
          /\ LastView.kind = "cart"
          /\ carts[L.user] = CartRemove(L.cart_before, L.update.data)
          /\ ~HasButton(LastView.buttons, L.update.data)
          /\ SubSeq(LastView.buttons, 1, Len(carts[L.user]))
             = LineIds(carts[L.user])
          /\ Len(LastView.buttons) = Len(carts[L.user]) + 2

C21_Witness ==
    /\ last.outcome = "returned"
    /\ L.user_state = PRODUCT_DESCRIPTION_STATE
    /\ IsAddToken(L.update)
    /\ L.cart_before = <<>>
    /\ LastView.amount_in_cart = 1
    /\ L.auths = 1

\* the calls that may change the page cursor: those of the start handler,
\* and those of the product list handler for 'next page' and 'previous page'
MovesCursor(c) ==
    \/ c.user_state = START_STATE
    \/ /\ c.user_state = PRODUCT_LIST_STATE
       /\ \/ IsCallback(c.update, NEXT_PAGE_CALLBACK_DATA)
          \/ IsCallback(c.update, PREVIOUS_PAGE_CALLBACK_DATA)

\* C22: the page cursor of a user is changed only by a call of the start
\* handler, which sets it to 0, and by a call of the product list handler
\* for 'next page' or 'previous page'; during and after every other call
\* the cursor is the one the call found, and a 'back to menu' from the
\* product or the cart that returns has shown the page of that cursor.
C22_CursorFrame ==
    /\ \A c \in running : ~MovesCursor(c) => user_data[c.user] = c.data_before
    /\ Handled =>
          /\ ~MovesCursor(L) => user_data[L.user] = L.data_before
          /\ L.user_state = START_STATE => user_data[L.user] = <<0>>
          /\ (/\ last.outcome = "returned"
              /\ L.user_state \in {PRODUCT_DESCRIPTION_STATE, CART_STATE}
              /\ IsCallback(L.update, PRODUCT_LIST_CALLBACK_DATA))
             => /\ LastView.kind = "product list"
                /\ LastView.page = Page(L.data_before)
                /\ users_db[L.user] = PRODUCT_LIST_STATE

C22_Witness ==
    /\ last.outcome = "returned"
    /\ L.user_state = CART_STATE
    /\ IsCallback(L.update, PRODUCT_LIST_CALLBACK_DATA)
    /\ L.data_before = <<1>>
    /\ LastView.page = 1

\* the calls that have begun and the one that ended last
Calls == running \cup (IF Handled THEN {L} ELSE {})
\* data is the token of one of the ids and amounts
IsCodecToken(data) ==
    \E id \in CodecIds, amount \in CodecAmounts :
        data = serialize_product_id_and_amount(id, amount)
ViewKinds(m) == {m.views[k].kind : k \in 1..Len(m.views)}

\* C23: the token of a product id and an amount is none of the five fixed
\* callback data, and none of the five is decoded as such a token.  In the
\* product description state a call with a product token is handled as an
\* add (the id and the amount are taken from it, no list and no cart is
\* shown, the state is not left), and a call with one of the five decodes
\* no id and no amount and leaves the cart as it is.
C23_SentinelsApart ==
    /\ \A id \in CodecIds, amount \in CodecAmounts :
          serialize_product_id_and_amount(id, amount) \notin FixedCallbackData
    /\ \A c \in Calls :
          (c.user_state = PRODUCT_DESCRIPTION_STATE /\ c.update.kind = "callback")
          => /\ IsCodecToken(c.update.data)
                => /\ c.update.data \notin FixedCallbackData
                   /\ IsAddToken(c.update)
                   /\ ViewKinds(c.m) \subseteq {"product"}
                   /\ c.m.ret \in {NoState, PRODUCT_DESCRIPTION_STATE}
                   /\ c.at > 1 => c.m.amount.kind = "int"
             /\ c.update.data \in FixedCallbackData
                => /\ ~IsAddToken(c.update)
                   /\ ~IsCodecToken(c.update.data)
                   /\ c.m.amount = NoValue
                   /\ c.m.mutations = 0
                   /\ c.m.cart = c.cart_before

C23_Witness ==
    /\ last.outcome = "returned"
    /\ L.user_state = PRODUCT_DESCRIPTION_STATE
    /\ L.update.data = SHOW_CART_CALLBACK_DATA
    /\ L.cart_before # <<>>
    /\ ViewKinds(L.m) = {"cart"}

\* C24: whenever the state stored for a user is the product list, the
\* product description or the cart state, the user has a page cursor, also
\* after the process was restarted.
C24_CursorDefined ==
    \A u \in Users :
        users_db[u] \in {PRODUCT_LIST_STATE, PRODUCT_DESCRIPTION_STATE,
                         CART_STATE}
        => HasPage(user_data[u])

\* C25: when a chat only sends '/start' and the data of buttons of the view
\* it was sent last, one update at a time, on a catalog that does not
\* change, its page cursor is never below 0 and never on a page without
\* products, but for page 0 of an empty catalog.
C25_ButtonsKeepCursorValid ==
    \A u \in Users :
        HasPage(user_data[u])
        => /\ Page(user_data[u]) >= 0
           /\ \/ Page(user_data[u]) = 0 /\ catalog = 0
              \/ ProductsPage(catalog, PRODUCT_LIST_PAGE_SIZE,
                     PRODUCT_LIST_PAGE_SIZE * Page(user_data[u])) # <<>>

\* C26: when a request for the products fails during a 'next page' or a
\* 'previous page' in the product list state, the page cursor of the user
\* is the one before the event, and so is the stored state.
C26_FailedFetchKeepsCursor ==
    (/\ Handled
     /\ L.user_state = PRODUCT_LIST_STATE
     /\ \/ IsCallback(L.update, NEXT_PAGE_CALLBACK_DATA)
        \/ IsCallback(L.update, PREVIOUS_PAGE_CALLBACK_DATA)
     /\ L.m.failed)
    => /\ last.outcome = "raised"
       /\ users_db[L.user] = L.db_before
       /\ user_data[L.user] = L.data_before

\* C27: from an empty store, every state the store holds is one of the five
\* states that have a handler (the wait for email state is never written),
\* every call is dispatched to a handler of the table, and the state a
\* handler returns for the write is one of the five.
C27_WrittenStatesHaveHandlers ==
    /\ \A u \in Users : users_db[u] \in HandledStates \cup {NoState}
    /\ \A c \in Calls :
          /\ c.user_state \in HandledStates
          /\ state_handler(c.user_state, c.update) # <<Step("KeyError")>>
          /\ c.m.ret \in HandledStates \cup {NoState}
    /\ last.outcome = "returned"
          => /\ last.db_after \in HandledStates
             /\ users_db[L.user] = last.db_after

C27_Witness ==
    /\ last.outcome = "returned"
    /\ L.db_before = WAIT_LOCATION_STATE
    /\ users_db[L.user] = START_STATE

\* C28: the store is changed by the write that ends a call as returned, and
\* the write of a call takes the state stored for its user to the product
\* description state only from the product list or the product description
\* state, to the cart state only from the product description or the cart
\* state, and to the wait for location state only from the cart state by
\* the checkout callback or from the wait for location state by an address
\* that was not recognised; from no state, the start state or the product
\* list state it never leads to the cart or the wait for location state.
C28_CheckoutOnlyThroughCart ==
    [][/\ users_db' # users_db => (last' # last /\ last'.outcome = "returned")
       /\ (last' # last /\ last'.outcome = "returned")
          => /\ users_db'[last'.call.user] = last'.db_after
             /\ last'.call.db_before = users_db[last'.call.user]
             /\ last'.db_after = PRODUCT_DESCRIPTION_STATE
                => users_db[last'.call.user]
                      \in {PRODUCT_LIST_STATE, PRODUCT_DESCRIPTION_STATE}
             /\ last'.db_after = CART_STATE
                => users_db[last'.call.user]
                      \in {PRODUCT_DESCRIPTION_STATE, CART_STATE}
             /\ last'.db_after = WAIT_LOCATION_STATE
                => \/ /\ users_db[last'.call.user] = CART_STATE
                      /\ IsCallback(last'.call.update, CHECKOUT_CALLBACK_DATA)
                   \/ /\ users_db[last'.call.user] = WAIT_LOCATION_STATE
                      /\ last'.call.m.geo = "unknown"
             /\ users_db[last'.call.user]
                   \in {NoState, START_STATE, PRODUCT_LIST_STATE}
                => last'.db_after \notin {CART_STATE, WAIT_LOCATION_STATE}]_vars

C28_Witness ==
    /\ last.outcome = "returned"
    /\ L.db_before = CART_STATE
    /\ IsCallback(L.update, CHECKOUT_CALLBACK_DATA)
    /\ users_db[L.user] = WAIT_LOCATION_STATE

\* the calls whose handler sends the request that adds to the cart, and
\* those whose handler sends the request that removes a line
AddsToCart(c) ==
    /\ c.user_state = PRODUCT_DESCRIPTION_STATE
    /\ c.update.kind = "callback"
    /\ c.update.data \notin {PRODUCT_LIST_CALLBACK_DATA,
                             SHOW_CART_CALLBACK_DATA}
RemovesFromCart(c) ==
    /\ c.user_state = CART_STATE
    /\ c.update.kind = "callback"
    /\ c.update.data \notin {PRODUCT_LIST_CALLBACK_DATA,
                             CHECKOUT_CALLBACK_DATA}

\* C29: the cart of a user changes only in a step of a call of that user
\* that is a callback in the product description state other than 'back to
\* menu' and 'show cart', which adds the token's amount of the token's
\* product, or a callback in the cart state other than 'back to menu' and
\* 'checkout', which removes the line of the callback's id; a call of any
\* other state and event has changed no cart.
C29_CartMutations ==
    [][/\ \A u \in Users :
             carts'[u] # carts[u]
             => \E c \in running :
                   /\ c.user = u
                   /\ c.pc = "handler"
                   /\ \/ /\ AddsToCart(c)
                         /\ IsAddToken(c.update)
                         /\ carts'[u] =
                              CartAdd(carts[u], catalog,
                                  PyStr(deserialize_product_id_and_amount(
                                            c.update.data).id),
                                  deserialize_product_id_and_amount(
                                      c.update.data).amount.int)
                      \/ /\ RemovesFromCart(c)
                         /\ carts'[u] = CartRemove(carts[u], c.update.data)
       /\ \A c \in running' \cup {last'.call} :
             c.m.mutations > 0 => AddsToCart(c) \/ RemovesFromCart(c)]_vars

C29_Witness ==
    /\ last.outcome = "returned"
    /\ RemovesFromCart(L)
    /\ L.m.mutations = 1
    /\ L.cart_before # <<>>
    /\ carts[L.user] = <<>>

\* C30: a message in the wait for location state whose location is known
\* (a shared location, or an address the geocoder finds), handled with no
\* failed request while the shop flow has no entry, sends no delivery
\* message: the call raises ValueError at the choice of the nearest shop,
\* nothing is written and the stored state stays the wait for location
\* state.
C30_NoShopsNoDelivery ==
    (/\ Handled
     /\ L.user_state = WAIT_LOCATION_STATE
     /\ L.update.kind = "message"
     /\ L.update.has_location \/ L.m.geo = "found"
     /\ ~L.m.failed
     /\ shops = <<>>)
    => /\ last.outcome = "raised"
       /\ L.m.exc = "ValueError"
       /\ L.m.entries = <<>>
       /\ L.m.views = <<>>
       /\ L.m.ret = NoState
       /\ L.db_before = WAIT_LOCATION_STATE
       /\ users_db[L.user] = WAIT_LOCATION_STATE

C30_Witness ==
    /\ last.outcome = "raised"
    /\ L.m.exc = "ValueError"
    /\ L.m.geo = "found"
    /\ shops = <<>>
    /\ users_db[L.user] = WAIT_LOCATION_STATE

====
